---- MODULE Spec2Model ----
(***************************************************************************)
(* A model of xmltree's marshalling code (marshal.go): the escape codec    *)
(* (xmlEncodeString / xmlDecodeString), diffScope, and the recursive tree  *)
(* encoder behind Marshal, MarshalIndent and Encode.                       *)
(*                                                                         *)
(* Strings are sequences of one-character strings.  An *Element is a node  *)
(* number (its address); nil is 0.  The output is the sequence of pieces   *)
(* the sink accepted: one piece per template execution or Write call.      *)
(***************************************************************************)
EXTENDS Integers, Sequences, FiniteSets, TLC

VARIABLES
    tree,      \* the Elements: Attr, Content, Children, Scope of every node
    e,         \* the encoder of the call under way: pretty, prefix, indent, flaky sink
    stack,     \* the encode() frames of the call under way, outermost first
    visited,   \* the visited map of the call under way
    out,       \* what the sink has accepted during the call under way
    err,       \* TRUE when the call returned a non-nil error
    failed,    \* number of writes the sink has refused so far
    calls,     \* number of calls of the entry point made so far
    first,     \* the output of the first call, once it has returned
    codec,     \* the escape codec applied to one string
    scopes     \* diffScope applied to one pair of scopes

vars == <<tree, e, stack, visited, out, err, failed, calls, first, codec, scopes>>

encVars == <<tree, e, stack, visited, out, err, failed, calls, first>>

----------------------------------------------------------------------------
(* Bounds of the model *)

\* longest string handed to the escape codec on its own
MaxStrLen == 4
\* longest attribute value / content in the trees whose values vary
MaxValLen == 2
\* longest scope handed to diffScope on its own
MaxScopeLen == 2
\* number of Elements in a tree
NumNodes == 4
\* number of parent-child references in a tree
MaxEdges == 3
\* number of writes a flaky sink may refuse
MaxFailures == 1
\* number of times the same tree is encoded
MaxCalls == 2

\* The recursion limit of encode (a constant of the package, declared outside
\* marshal.go; scaled down so that paths longer than it exist in the model).
recursionLimit == 2

----------------------------------------------------------------------------
(* Strings and the escape codec *)

\* strings.Replace(s, old, new, -1): every non-overlapping occurrence of old,
\* left to right.
RECURSIVE Replace(_, _, _)
Replace(s, old, new) ==
    IF Len(s) < Len(old) THEN s
    ELSE IF SubSeq(s, 1, Len(old)) = old
         THEN new \o Replace(SubSeq(s, Len(old) + 1, Len(s)), old, new)
         ELSE <<Head(s)>> \o Replace(Tail(s), old, new)

\* The mappings with '&' moved to the end (a plausible slip in the table).
vContentMappingsAmpLast ==
    << [Decoded |-> <<"<">>,  Encoded |-> <<"&", "l", "t", ";">>],
       [Decoded |-> <<">">>,  Encoded |-> <<"&", "g", "t", ";">>],
       [Decoded |-> <<"\"">>, Encoded |-> <<"&", "q", "u", "o", "t", ";">>],
       [Decoded |-> <<"&">>,  Encoded |-> <<"&", "a", "m", "p", ";">>] >>

vContentMappings ==
    << [Decoded |-> <<"&">>,  Encoded |-> <<"&", "a", "m", "p", ";">>],
       [Decoded |-> <<"<">>,  Encoded |-> <<"&", "l", "t", ";">>],
       [Decoded |-> <<">">>,  Encoded |-> <<"&", "g", "t", ";">>],
       [Decoded |-> <<"\"">>, Encoded |-> <<"&", "q", "u", "o", "t", ";">>] >>

\* for _, mapping := range vContentMappings { str = Replace(str, Decoded, Encoded) }
\* (x names the string after mapping k, the value the next round starts from.)
RECURSIVE encodeLoop(_, _)
encodeLoop(s, k) ==
    IF k > Len(vContentMappings) THEN s
    ELSE CHOOSE r \in { encodeLoop(x, k + 1) :
                          x \in {Replace(s, vContentMappings[k].Decoded,
                                            vContentMappings[k].Encoded)} } : TRUE

xmlEncodeString(strToEncode) == encodeLoop(strToEncode, 1)

\* for _, mapping := range vContentMappings { str = Replace(str, Encoded, Decoded) }
RECURSIVE decodeLoop(_, _)
decodeLoop(s, k) ==
    IF k > Len(vContentMappings) THEN s
    ELSE CHOOSE r \in { decodeLoop(x, k + 1) :
                          x \in {Replace(s, vContentMappings[k].Encoded,
                                            vContentMappings[k].Decoded)} } : TRUE

xmlDecodeString(strToDecode) == decodeLoop(strToDecode, 1)

\* The characters of the codec's inputs: the reserved characters, ';' and
\* the letters of the entity names.
CodecChars == {"&", "<", ">", "\"", ";", "a", "m", "p", "l", "t", "g", "q", "u", "o"}

Strings(chars, n) == UNION {[1..k -> chars] : k \in 0..n}

----------------------------------------------------------------------------
(* Scopes *)

\* Namespace declarations (xml.Name: Local is the prefix, Space the URI).
Decls == { [Local |-> "",  Space |-> "urn:a"],
           [Local |-> "p", Space |-> "urn:a"],
           [Local |-> "p", Space |-> "urn:b"] }

ScopeLists(n) == UNION {[1..k -> Decls] : k \in 0..n}

\* The loop of diffScope: drop the common front of both lists.
RECURSIVE dropCommon(_, _)
dropCommon(parentNs, childNs) ==
    IF Len(parentNs) > 0 /\ Len(childNs) > 0 /\ Head(childNs) = Head(parentNs)
    THEN dropCommon(Tail(parentNs), Tail(childNs))
    ELSE childNs

\* diffScope(parent, child) on the two Scope values; hasParent is parent != nil.
diffScope(hasParent, parentNs, childNs) ==
    IF ~hasParent THEN childNs ELSE dropCommon(parentNs, childNs)

----------------------------------------------------------------------------
(* The Element tree *)

Nodes == 1..NumNodes

\* The Element handed to Marshal / MarshalIndent / Encode.
Root == 1

Range(s) == {s[i] : i \in DOMAIN s}

\* The Elements a map of Children refers to, the root included.
Used(g) == {Root} \cup UNION {Range(g[n]) : n \in Nodes}

\* Every way of hanging at most k child references below the root: the
\* Children slices of all Elements.  A child is any Element in use (so a
\* child may be its own ancestor, or be shared) or the next unused one
\* (Elements other than the root are numbered in the order they are hung).
RECURSIVE ChildrenMaps(_)
ChildrenMaps(k) ==
    IF k = 0 THEN {[n \in Nodes |-> <<>>]}
    ELSE LET G == ChildrenMaps(k - 1)
         IN  G \cup UNION { { [g EXCEPT ![p] = Append(@, c)] :
                                p \in Used(g),
                                c \in {n \in Nodes : n <= Cardinality(Used(g)) + 1} } :
                            g \in G }

\* The characters of attribute values and content: the four reserved
\* characters, an apostrophe and a letter.
ValueChars == {"&", "<", ">", "\"", "'", "a"}

\* Trees of every shape, with the values of the package's tests: an attribute
\* "&" on the root, content "<>" on every other Element; every other Element
\* declares one namespace more than the root.
ShapeTrees ==
    { [ Attr     |-> [n \in Nodes |-> IF n = Root THEN << <<"&">> >> ELSE <<>>],
        Content  |-> [n \in Nodes |-> IF n = Root THEN <<>> ELSE <<"<", ">">>],
        Children |-> ch,
        Scope    |-> [n \in Nodes |-> IF n = Root
                                      THEN <<[Local |-> "",  Space |-> "urn:a"]>>
                                      ELSE <<[Local |-> "",  Space |-> "urn:a"],
                                             [Local |-> "p", Space |-> "urn:b"]>>] ] :
      ch \in ChildrenMaps(MaxEdges) }

\* A root alone or with one child, with every string as the attribute value
\* and the content of each.
ValueTrees ==
    { [ Attr     |-> [n \in Nodes |-> <<v>>],
        Content  |-> [n \in Nodes |-> v],
        Children |-> [n \in Nodes |-> IF n = Root THEN kids ELSE <<>>],
        Scope    |-> [n \in Nodes |-> <<>>] ] :
      v \in Strings(ValueChars, MaxValLen),
      kids \in {<<>>, <<2>>} }

----------------------------------------------------------------------------
(* Output pieces *)

OpenTok(el, attr, ns, selfclose) ==
    [k |-> "open", el |-> el, attr |-> attr, ns |-> ns, selfclose |-> selfclose]
CloseTok(el)  == [k |-> "close", el |-> el]
TextTok(s)    == [k |-> "text", s |-> s]
SpaceTok(s)   == [k |-> "ws", s |-> s]
NewlineTok    == [k |-> "nl"]
\* the literal <!-- cycle detected -->
CycleTok      == [k |-> "cycle"]

\* A Write whose error the caller drops: the piece arrives only if the sink
\* accepts it.
Write(o, tok, ok) == IF ok THEN Append(o, tok) ELSE o

\* for i := 0; i < depth; i++ { io.WriteString(e.w, e.indent) }
Indent(o, enc, depth) == o \o [i \in 1..depth |-> SpaceTok(enc.indent)]

----------------------------------------------------------------------------
(* encodeOpenTag and encodeCloseTag *)

\* A slip: the copy shares the Element's attribute array.
elCopyAttrShared(t, el) ==
    [ref |-> el, arrays |-> [a \in {0} \cup Nodes |-> IF a = 0 THEN <<>> ELSE t.Attr[a]]]

\* elCopy.StartElement.Attr = make(...); copy loop: a fresh array (address 0)
\* beside the Elements' own arrays (addressed by their node).
elCopyAttr(t, el) ==
    [ref |-> 0, arrays |-> [a \in {0} \cup Nodes |-> IF a = 0 THEN t.Attr[el] ELSE t.Attr[a]]]

\* attrs[i].Value = xmlEncodeString(attrs[i].Value), in place in the array
\* that attrs refers to.
escapeAttrs(h) ==
    [h.arrays EXCEPT ![h.ref] = [i \in DOMAIN @ |-> xmlEncodeString(@[i])]]

\* A slip: the close bracket chosen from the children alone.
selfClosingNoContent(t, el) == ~(Len(t.Children[el]) > 0)

\* {{if or .Children .Content}}>{{else}} />{{end}}, .Content being the
\* escaped content of the copy.
selfClosing(t, el) ==
    ~(Len(t.Children[el]) > 0 \/ Len(xmlEncodeString(t.Content[el])) > 0)

\* The result is the tree afterwards, the output afterwards and whether an
\* error is returned; ok says whether the sink accepts the template's output.
encodeOpenTag(t, enc, o, el, scopeNs, depth, ok) ==
    LET o1  == IF enc.pretty THEN Indent(o, enc, depth) ELSE o
        h   == elCopyAttr(t, el)
        arr == escapeAttrs(h)
        t2  == [t EXCEPT !.Attr = [n \in Nodes |-> arr[n]]]
        tag == OpenTok(el, arr[h.ref], scopeNs, selfClosing(t, el))
        o2  == Append(o1, tag)
        o3  == IF enc.pretty /\ (Len(t.Children[el]) > 0 \/ Len(t.Content[el]) = 0)
               THEN Append(o2, NewlineTok) ELSE o2
    IN  IF ok THEN [tree |-> t2, out |-> o3, err |-> FALSE]
              ELSE [tree |-> t2, out |-> o1, err |-> TRUE]

encodeCloseTag(t, enc, o, el, depth, ok) ==
    LET o1 == IF enc.pretty /\ Len(t.Children[el]) > 0
              THEN Indent(o, enc, depth) ELSE o
        o2 == Append(o1, CloseTok(el))
        o3 == IF enc.pretty THEN Append(o2, NewlineTok) ELSE o2
    IN  IF ok THEN [out |-> o3, err |-> FALSE]
              ELSE [out |-> o1, err |-> TRUE]

----------------------------------------------------------------------------
(* encode *)

Top == stack[Len(stack)]

\* A slip: the guard off by one.
depthExceededOffByOne(v) == Cardinality(v) >= recursionLimit

\* if len(visited) > recursionLimit { return nil }
depthExceeded(v) == Cardinality(v) > recursionLimit

\* A slip: the cycle check left out.
isCycleNever(el, v) == FALSE

\* if _, ok := visited[el]; ok
isCycle(el, v) == el \in v

\* A slip: the early return of an empty leaf left out.
returnsAfterOpenTagNever(t, el) == FALSE

\* if len(el.Children) == 0 { if len(el.Content) > 0 {...} else { return nil } }
returnsAfterOpenTag(t, el) == Len(t.Children[el]) = 0 /\ ~(Len(t.Content[el]) > 0)

\* What a flaky sink may answer to a write.
Answers == IF e.flaky /\ failed < MaxFailures THEN BOOLEAN ELSE {TRUE}

Frame(el, parent) == [el |-> el, parent |-> parent, i |-> 1, pc |-> "enter"]

\* encode returns nil: its frame is popped and its caller, if any, goes on in
\* the loop over its children: delete(visited, el), next i.
ReturnNil ==
    IF Len(stack) = 1
    THEN /\ stack' = <<>>
         /\ visited' = visited
    ELSE LET caller == stack[Len(stack) - 1]
         IN  /\ stack' = [SubSeq(stack, 1, Len(stack) - 1) EXCEPT
                            ![Len(stack) - 1] = [caller EXCEPT !.i = @ + 1, !.pc = "loop"]]
             /\ visited' = visited \ {caller.el}

\* encode returns an error: every caller returns it at once.
ReturnErr ==
    /\ stack' = <<>>
    /\ visited' = visited
    /\ err' = TRUE

\* Lines 127-130: the depth guard.
encodeDepthGuard ==
    /\ stack # <<>>
    /\ Top.pc = "enter"
    /\ depthExceeded(visited)
    /\ ReturnNil
    /\ UNCHANGED <<tree, e, out, err, failed, calls, first, codec, scopes>>

\* Lines 131-135: the cycle marker, its Write error dropped.
encodeCycle ==
    /\ stack # <<>>
    /\ Top.pc = "enter"
    /\ ~depthExceeded(visited)
    /\ isCycle(Top.el, visited)
    /\ \E ok \in Answers :
         /\ out' = Write(out, CycleTok, ok)
         /\ failed' = IF ok THEN failed ELSE failed + 1
    /\ ReturnNil
    /\ UNCHANGED <<tree, e, err, calls, first, codec, scopes>>

\* diffScope(parent, el) on the Elements of the tree.
scopeOf(t, parent, el) ==
    diffScope(parent # 0, IF parent = 0 THEN <<>> ELSE t.Scope[parent], t.Scope[el])

\* Lines 140-161 for an Element without children, after its open tag r1 was
\* written, as a function of what the sink answers to the content and to the
\* close tag: the output afterwards, the number of writes refused, and whether
\* an error is returned.
leafAfterOpenTag(t, enc, r1, el, depth, ok2, ok3) ==
    IF returnsAfterOpenTag(t, el)
    THEN [out |-> r1.out, refused |-> 0, err |-> FALSE]
    ELSE LET hasText == Len(t.Content[el]) > 0
             o2 == IF hasText
                   THEN Write(r1.out, TextTok(xmlEncodeString(t.Content[el])), ok2)
                   ELSE r1.out
             r3 == encodeCloseTag(t, enc, o2, el, depth, ok3)
         IN  [out |-> r3.out,
              refused |-> (IF hasText /\ ~ok2 THEN 1 ELSE 0) + (IF ok3 THEN 0 ELSE 1),
              err |-> r3.err]

\* Lines 136-162 for an Element without children: the open tag, then either
\* the early return, or the content and the close tag.
encodeLeaf ==
    /\ stack # <<>>
    /\ Top.pc = "enter"
    /\ ~depthExceeded(visited)
    /\ ~isCycle(Top.el, visited)
    /\ Len(tree.Children[Top.el]) = 0
    /\ \E ok1 \in Answers :
       \E r1 \in {encodeOpenTag(tree, e, out, Top.el, scopeOf(tree, Top.parent, Top.el),
                                Cardinality(visited), ok1)} :
         /\ tree' = r1.tree
         /\ IF r1.err
            THEN /\ out' = r1.out
                 /\ failed' = failed + 1
                 /\ ReturnErr
            ELSE \E ok2 \in Answers, ok3 \in Answers :
                 \E r \in {leafAfterOpenTag(tree, e, r1, Top.el, Cardinality(visited),
                                            ok2, ok3)} :
                   /\ failed + r.refused <= MaxFailures
                   /\ out' = r.out
                   /\ failed' = failed + r.refused
                   /\ IF r.err THEN ReturnErr ELSE ReturnNil /\ err' = err
    /\ UNCHANGED <<e, calls, first, codec, scopes>>

\* Lines 136-139 for an Element with children: the open tag, then the loop.
encodeParent ==
    /\ stack # <<>>
    /\ Top.pc = "enter"
    /\ ~depthExceeded(visited)
    /\ ~isCycle(Top.el, visited)
    /\ Len(tree.Children[Top.el]) > 0
    /\ \E ok \in Answers :
       \E r1 \in {encodeOpenTag(tree, e, out, Top.el, scopeOf(tree, Top.parent, Top.el),
                                Cardinality(visited), ok)} :
         /\ tree' = r1.tree
         /\ out' = r1.out
         /\ IF r1.err
            THEN /\ failed' = failed + 1
                 /\ ReturnErr
            ELSE /\ failed' = failed
                 /\ stack' = [stack EXCEPT ![Len(stack)].pc = "loop"]
                 /\ UNCHANGED <<visited, err>>
    /\ UNCHANGED <<e, calls, first, codec, scopes>>

\* Lines 151-153: visited[el] = struct{}{}; e.encode(&el.Children[i], el, visited).
encodeChild ==
    /\ stack # <<>>
    /\ Top.pc = "loop"
    /\ Top.i <= Len(tree.Children[Top.el])
    /\ visited' = visited \cup {Top.el}
    /\ stack' = Append([stack EXCEPT ![Len(stack)].pc = "call"],
                       Frame(tree.Children[Top.el][Top.i], Top.el))
    /\ UNCHANGED <<tree, e, out, err, failed, calls, first, codec, scopes>>

\* Lines 158-161: the close tag after the last child.
encodeClose ==
    /\ stack # <<>>
    /\ Top.pc = "loop"
    /\ Top.i > Len(tree.Children[Top.el])
    /\ \E ok \in Answers :
       \E r \in {encodeCloseTag(tree, e, out, Top.el, Cardinality(visited), ok)} :
         /\ out' = r.out
         /\ failed' = IF ok THEN failed ELSE failed + 1
         /\ IF r.err THEN ReturnErr ELSE ReturnNil /\ err' = err
    /\ UNCHANGED <<tree, e, calls, first, codec, scopes>>

----------------------------------------------------------------------------
(* The entry points *)

Prefixes == {<<>>, <<"#">>}
Indents  == {<<" ", " ">>}

\* enc.encode(el, nil, make(map[*Element]struct{}))
Start(enc) ==
    /\ e' = enc
    /\ stack' = <<Frame(Root, 0)>>
    /\ visited' = {}
    /\ out' = <<>>
    /\ err' = FALSE
    /\ calls' = calls + 1
    /\ first' = IF calls = 1 THEN out ELSE first
    /\ UNCHANGED <<tree, failed, codec, scopes>>

\* Marshal: Encode into a bytes.Buffer, which accepts every write.
Marshal ==
    /\ calls = 0
    /\ Start([pretty |-> FALSE, prefix |-> <<>>, indent |-> <<>>, flaky |-> FALSE])

MarshalIndent ==
    /\ calls = 0
    /\ \E prefix \in Prefixes, indent \in Indents :
         Start([pretty |-> TRUE, prefix |-> prefix, indent |-> indent, flaky |-> FALSE])

\* Encode into a sink of the caller's, any write to which may fail.
Encode ==
    /\ calls = 0
    /\ Start([pretty |-> FALSE, prefix |-> <<>>, indent |-> <<>>, flaky |-> TRUE])

\* The same entry point called again on the same tree with the same arguments,
\* by a caller whose sink has accepted every write so far.
Again ==
    /\ calls >= 1
    /\ calls < MaxCalls
    /\ stack = <<>>
    /\ failed = 0
    /\ Start(e)

Returned == calls >= 1 /\ stack = <<>>

----------------------------------------------------------------------------
(* The specification of the encoder *)

CodecIdle  == [pc |-> "idle", str |-> <<>>, encoded |-> <<>>, decoded |-> <<>>]
ScopesIdle == [pc |-> "idle", hasParent |-> FALSE, parent |-> <<>>, child |-> <<>>,
               result |-> <<>>]

EncoderIdle ==
    /\ e = [pretty |-> FALSE, prefix |-> <<>>, indent |-> <<>>, flaky |-> FALSE]
    /\ stack = <<>>
    /\ visited = {}
    /\ out = <<>>
    /\ err = FALSE
    /\ failed = 0
    /\ calls = 0
    /\ first = <<>>

Init ==
    /\ tree \in ShapeTrees \cup ValueTrees
    /\ EncoderIdle
    /\ codec = CodecIdle
    /\ scopes = ScopesIdle

Next ==
    \/ Marshal
    \/ MarshalIndent
    \/ Encode
    \/ Again
    \/ encodeDepthGuard
    \/ encodeCycle
    \/ encodeLeaf
    \/ encodeParent
    \/ encodeChild
    \/ encodeClose

Spec == Init /\ [][Next]_vars

\* The steps of a call of encode.
EncodeStep ==
    \/ encodeDepthGuard
    \/ encodeCycle
    \/ encodeLeaf
    \/ encodeParent
    \/ encodeChild
    \/ encodeClose

\* A call that has begun runs on: the calls are synchronous, nothing suspends
\* them.  Whether the caller calls at all, or again, is left open.
FairSpec == Spec /\ WF_vars(EncodeStep)

----------------------------------------------------------------------------
(* The escape codec applied to one string *)

\* A tree for the specifications that do not encode one.
NoTree ==
    [ Attr     |-> [n \in Nodes |-> <<>>],
      Content  |-> [n \in Nodes |-> <<>>],
      Children |-> [n \in Nodes |-> <<>>],
      Scope    |-> [n \in Nodes |-> <<>>] ]

CodecInit ==
    /\ tree = NoTree
    /\ EncoderIdle
    /\ scopes = ScopesIdle
    /\ \E s \in Strings(CodecChars, MaxStrLen) :
         codec = [pc |-> "start", str |-> s, encoded |-> <<>>, decoded |-> <<>>]

CodecEncode ==
    /\ codec.pc = "start"
    /\ codec' = [codec EXCEPT !.encoded = xmlEncodeString(codec.str), !.pc = "encoded"]
    /\ UNCHANGED <<encVars, scopes>>

CodecDecode ==
    /\ codec.pc = "encoded"
    /\ codec' = [codec EXCEPT !.decoded = xmlDecodeString(codec.encoded), !.pc = "decoded"]
    /\ UNCHANGED <<encVars, scopes>>

CodecNext == CodecEncode \/ CodecDecode

CodecSpec == CodecInit /\ [][CodecNext]_vars

----------------------------------------------------------------------------
(* diffScope applied to one pair of scopes *)

ScopeInit ==
    /\ tree = NoTree
    /\ EncoderIdle
    /\ codec = CodecIdle
    /\ \E hp \in BOOLEAN, c \in ScopeLists(MaxScopeLen) :
         \E p \in IF hp THEN ScopeLists(MaxScopeLen) ELSE {<<>>} :
           scopes = [pc |-> "start", hasParent |-> hp, parent |-> p, child |-> c,
                     result |-> <<>>]

DiffScope ==
    /\ scopes.pc = "start"
    /\ scopes' = [scopes EXCEPT
                    !.result = diffScope(scopes.hasParent, scopes.parent, scopes.child),
                    !.pc = "done"]
    /\ UNCHANGED <<encVars, codec>>

ScopeNext == DiffScope

ScopeSpec == ScopeInit /\ [][ScopeNext]_vars

----------------------------------------------------------------------------
(* Reading the output and the tree *)

IsTag(tok) == tok.k \in {"open", "close"}

Pushes(tok) == tok.k = "open" /\ ~tok.selfclose

\* Number of tags open and not yet closed before piece i.
NestBefore(i) ==
    Cardinality({j \in 1..(i - 1) : Pushes(out[j])})
    - Cardinality({j \in 1..(i - 1) : out[j].k = "close"})

\* The close tag that matches the open tag at i.
MatchClose(i) ==
    CHOOSE j \in (i + 1)..Len(out) :
        /\ out[j].k = "close"
        /\ NestBefore(j) = NestBefore(i) + 1
        /\ \A m \in (i + 1)..(j - 1) :
             ~(out[m].k = "close" /\ NestBefore(m) = NestBefore(i) + 1)

HasMatch(i) ==
    \E j \in (i + 1)..Len(out) :
        out[j].k = "close" /\ NestBefore(j) = NestBefore(i) + 1

\* The Elements whose tags enclose piece j.
Enclosing(j) ==
    {out[m].el : m \in {m \in 1..(j - 1) : Pushes(out[m]) /\ HasMatch(m) /\ MatchClose(m) > j}}

\* The elements of a set of numbers in increasing order.
RECURSIVE Sorted(_)
Sorted(S) ==
    IF S = {} THEN <<>>
    ELSE LET m == CHOOSE x \in S : \A y \in S : x <= y
         IN  <<m>> \o Sorted(S \ {m})

\* The pieces written directly between the open tag at i and its close tag
\* in place of the children: open tags and cycle markers one level down.
DirectItems(i) ==
    Sorted({j \in (i + 1)..(MatchClose(i) - 1) :
              out[j].k \in {"open", "cycle"} /\ NestBefore(j) = NestBefore(i) + 1})

\* Escape-Encode, character by character.
EscapeChar(c) ==
    CASE c = "&"  -> <<"&", "a", "m", "p", ";">>
      [] c = "<"  -> <<"&", "l", "t", ";">>
      [] c = ">"  -> <<"&", "g", "t", ";">>
      [] c = "\"" -> <<"&", "q", "u", "o", "t", ";">>
      [] OTHER    -> <<c>>

RECURSIVE Escape(_)
Escape(s) == IF s = <<>> THEN <<>> ELSE EscapeChar(Head(s)) \o Escape(Tail(s))

\* The Elements reachable from n through Children.
RECURSIVE ReachFrom(_, _)
ReachFrom(frontier, seen) ==
    IF frontier \subseteq seen THEN seen
    ELSE ReachFrom(UNION {Range(tree.Children[n]) : n \in frontier}, seen \cup frontier)

Descendants(n) == ReachFrom({n}, {})

\* Some Element reachable from the root has a child that is itself or one of
\* its ancestors.
HasBackRef ==
    \E n \in Descendants(Root) :
        \E c \in Range(tree.Children[n]) : n \in Descendants(c)

\* The paths of distinct Elements from the root, of at most n Elements.
PathsUpTo(n) ==
    {p \in UNION {[1..k -> Nodes] : k \in 1..n} :
        /\ p[1] = Root
        /\ \A i, j \in DOMAIN p : i # j => p[i] # p[j]
        /\ \A i \in 1..(Len(p) - 1) : p[i + 1] \in Range(tree.Children[p[i]])}

\* A back-reference at the end of a path of at most recursionLimit Elements.
HasShallowBackRef ==
    \E p \in PathsUpTo(recursionLimit) :
        \E c \in Range(tree.Children[p[Len(p)]]) : c \in Range(p)

\* Some path of distinct Elements from the root is longer than the guard lets
\* encode go.
HasDeepPath == PathsUpTo(recursionLimit + 2) # PathsUpTo(recursionLimit + 1)

Clean == Returned /\ failed = 0

----------------------------------------------------------------------------
(* C1 *)

\* C1: decoding the encoding of a string gives the string back, also for
\* strings that already look like entities ("&lt;", "&amp;lt;").
C1_RoundTrip == codec.pc = "decoded" => codec.decoded = codec.str

----------------------------------------------------------------------------
(* C2 *)

\* C2: if a write to the sink failed during a call of Encode, the call
\* returns a non-nil error.
C2_SinkErrorReturned == (Returned /\ calls = 1 /\ failed > 0) => err

----------------------------------------------------------------------------
(* C3 *)

LineStart(i) ==
    CHOOSE j \in 1..i :
        /\ j = 1 \/ out[j - 1].k = "nl"
        /\ \A m \in j..(i - 1) : out[m].k # "nl"

RECURSIVE Flat(_)
Flat(toks) ==
    IF toks = <<>> THEN <<>>
    ELSE (IF Head(toks).k = "ws" THEN Head(toks).s ELSE <<Head(toks).k>>) \o Flat(Tail(toks))

RECURSIVE Copies(_, _)
Copies(s, n) == IF n = 0 THEN <<>> ELSE s \o Copies(s, n - 1)

\* The nesting depth of the Element whose tag is piece i.
TagDepth(i) == IF out[i].k = "close" THEN NestBefore(i) - 1 ELSE NestBefore(i)

\* C3: in the output of MarshalIndent every line that carries a tag begins
\* with prefix followed by exactly d copies of indent, d the nesting depth
\* of the tag's Element.
C3_LinesIndented ==
    (Returned /\ e.pretty) =>
        \A i \in DOMAIN out :
            (IsTag(out[i]) /\ \A m \in LineStart(i)..(i - 1) : ~IsTag(out[m])) =>
                Flat(SubSeq(out, LineStart(i), i - 1))
                    = e.prefix \o Copies(e.indent, TagDepth(i))

----------------------------------------------------------------------------
(* C4 *)

\* C4: no step of any call changes a field of an Element, and a second
\* encoding of the tree gives the output of the first.
C4_ReadOnly ==
    /\ [][tree' = tree]_vars
    /\ []((Clean /\ calls >= 2) => out = first)

C4_Witness ==
    /\ Clean
    /\ calls >= 2
    /\ tree.Attr[Root] = << <<"&">> >>
    /\ out # <<>>
    /\ out[1].attr = << <<"&", "a", "m", "p", ";">> >>

----------------------------------------------------------------------------
(* C5 *)

\* C5 as stated: whenever some reachable Element has a child that is itself
\* or an ancestor, at whatever depth, the output carries the cycle marker
\* and the call returns no error.
C5_CycleMarked ==
    (Clean /\ HasBackRef) => (CycleTok \in Range(out) /\ ~err)

\* C5 as amended: the marker is there whenever a back-reference ends a path
\* of at most recursionLimit Elements from the root.
C5_ShallowCycleMarked ==
    (Clean /\ HasShallowBackRef) => (CycleTok \in Range(out) /\ ~err)

C5_Witness ==
    /\ Clean
    /\ HasShallowBackRef
    /\ CycleTok \in Range(out)
    /\ Len(tree.Children[Root]) > 1

----------------------------------------------------------------------------
(* C6 *)

\* No Element is being encoded below itself.
NoRepeatOnPath ==
    \A i, j \in DOMAIN stack :
        (i < j /\ stack[i].pc # "enter" /\ stack[j].pc # "enter")
            => stack[i].el # stack[j].el

\* C6: every call of encode returns (the outermost frame is popped, and with
\* it every frame of a nested call above it), and no path of nested calls
\* visits an Element below an Element already on it.
C6_Terminates ==
    /\ []NoRepeatOnPath
    /\ (stack # <<>>) ~> (stack = <<>>)

C6_Witness ==
    /\ Clean
    /\ HasBackRef
    /\ CycleTok \notin Range(out)
    /\ Len(out) > 2

----------------------------------------------------------------------------
(* C7 *)

\* C7: every attribute value and every leaf content that is written is the
\* Escape-Encode of the value on the tree, applied once: the four reserved
\* characters become their entities and no other character changes.
C7_EscapedOnce ==
    \A i \in DOMAIN out :
        /\ out[i].k = "open" =>
             out[i].attr = [j \in DOMAIN tree.Attr[out[i].el] |->
                              Escape(tree.Attr[out[i].el][j])]
        /\ out[i].k = "text" =>
             /\ i > 1
             /\ out[i - 1].k = "open"
             /\ out[i].s = Escape(tree.Content[out[i - 1].el])
        /\ (out[i].k = "open" /\ Len(tree.Children[out[i].el]) = 0
              /\ tree.Content[out[i].el] # <<>> /\ Clean) =>
             /\ i < Len(out)
             /\ out[i + 1] = TextTok(Escape(tree.Content[out[i].el]))

C7_Witness ==
    /\ Clean
    /\ Len(out) >= 2
    /\ tree.Attr[Root] = << <<"&", "<">> >>
    /\ out[1].attr = << <<"&", "a", "m", "p", ";", "&", "l", "t", ";">> >>
    /\ out[2] = TextTok(<<"&", "a", "m", "p", ";", "&", "l", "t", ";">>)

----------------------------------------------------------------------------
(* C8 *)

\* What stands in the output for child c of the Element opened at piece i:
\* the cycle marker if c is that Element or one whose tag encloses it,
\* the open tag of c otherwise.
StandsFor(tok, c, i) ==
    IF c \in Enclosing(i) \cup {out[i].el}
    THEN tok = CycleTok
    ELSE tok.k = "open" /\ tok.el = c

\* C8: an Element is written self-closing, with no close tag, exactly if it
\* has no children and no content; a childless Element with content is its
\* open tag, its escaped content, its close tag; an Element with children is
\* its open tag, its children in order, its close tag, without its content.
C8_TagForms ==
    Clean =>
      \A i \in DOMAIN out :
        /\ out[i].k = "open" =>
             LET el   == out[i].el
                 kids == tree.Children[el]
                 text == tree.Content[el]
             IN  /\ out[i].selfclose <=> (kids = <<>> /\ text = <<>>)
                 /\ out[i].selfclose => (i = Len(out) \/ out[i + 1] # CloseTok(el))
                 /\ (kids = <<>> /\ text # <<>>) =>
                      /\ i + 2 <= Len(out)
                      /\ out[i + 1] = TextTok(Escape(text))
                      /\ out[i + 2] = CloseTok(el)
                 /\ kids # <<>> =>
                      /\ HasMatch(i)
                      /\ out[MatchClose(i)] = CloseTok(el)
                      /\ LET items == DirectItems(i)
                         IN  IF NestBefore(i) + 1 > recursionLimit
                             THEN items = <<>>
                             ELSE /\ Len(items) = Len(kids)
                                  /\ \A n \in DOMAIN kids :
                                       StandsFor(out[items[n]], kids[n], i)
        /\ out[i].k = "text" =>
             /\ i > 1
             /\ out[i - 1].k = "open"
             /\ tree.Children[out[i - 1].el] = <<>>
        /\ out[i].k = "close" =>
             (tree.Children[out[i].el] # <<>> \/ tree.Content[out[i].el] # <<>>)

C8_Witness ==
    /\ Clean
    /\ \E j, m \in DOMAIN out :
         /\ out[j].k = "text"
         /\ out[m].k = "open"
         /\ tree.Children[out[m].el] # <<>>
         /\ tree.Content[out[m].el] # <<>>
         /\ Len(DirectItems(m)) = 2

----------------------------------------------------------------------------
(* C9 *)

\* C9: diffScope returns the child's scope without every declaration found
\* anywhere in the parent's scope, the others in their order; with no parent
\* it returns the child's scope.
C9_ScopeMinusParent ==
    scopes.pc = "done" =>
        scopes.result =
            IF scopes.hasParent
            THEN LET Missing(d) == d \notin Range(scopes.parent)
                 IN  SelectSeq(scopes.child, Missing)
            ELSE scopes.child

----------------------------------------------------------------------------
(* C10 *)

\* The tags of the output, read left to right against the stack of the
\* Elements open so far: an open tag is of an Element not yet open, at most
\* recursionLimit deep; a close tag is of the Element opened last.
RECURSIVE Nested(_, _)
Nested(tags, open) ==
    IF tags = <<>> THEN open = <<>>
    ELSE LET t == Head(tags)
         IN  IF t.k = "open"
             THEN /\ t.el \notin Range(open)
                  /\ Len(open) <= recursionLimit
                  /\ Nested(Tail(tags), IF t.selfclose THEN open ELSE Append(open, t.el))
             ELSE /\ open # <<>>
                  /\ open[Len(open)] = t.el
                  /\ Nested(Tail(tags), SubSeq(open, 1, Len(open) - 1))

\* C10: with a sink that never fails the tags are well nested: the output
\* starts with the root's open tag, every open tag that is not self-closing
\* is closed once, last opened first, and nothing is opened below itself or
\* deeper than the guard allows.
C10_WellNested ==
    Clean =>
        /\ out # <<>>
        /\ out[1].k = "open"
        /\ out[1].el = Root
        /\ Nested(SelectSeq(out, IsTag), <<>>)

C10_Witness ==
    /\ Clean
    /\ HasDeepPath
    /\ Len(SelectSeq(out, IsTag)) >= 6

====
